---- MODULE Spec2Model ----
(***************************************************************************)
(* Model of the DSSAT MCP server (src/server.py, src/auth0_utils.py,       *)
(* src/mcp_tools_utils.py): the three tool handlers run_dssat_experiment,  *)
(* download_files_from_s3 and upload_and_collect_output_files, the bearer  *)
(* token verification in front of them, the filesystem under DATA_ROOT,    *)
(* the process-wide working directory and the S3 bucket.                   *)
(*                                                                         *)
(* A path is the sequence of its segments from "/"; <<>> is "/" itself.    *)
(* A caller-supplied name (folder, experiment_file) is a record            *)
(* [abs, segs]: whether it starts with a separator, and its segments.      *)
(***************************************************************************)
EXTENDS Integers, Sequences, FiniteSets, TLC

\* ------------------------------------------------------------------ bounds
NumReq == 2          \* request slots of the worker pool
MaxRequests == 1     \* requests the server receives in one behaviour
MaxLines == 2        \* lines of a SUMMARY.OUT handed to the parser

\* ------------------------------------------------------- program constants
DATA_ROOT == <<"data">>
DSSAT_EXE == <<"opt", "dscsm048">>
START_DIR == <<"srv">>
HTTP_200_OK == 200
HTTP_400_BAD_REQUEST == 400
HTTP_401_UNAUTHORIZED == 401
HTTP_403_FORBIDDEN == 403
HTTP_404_NOT_FOUND == 404
HTTP_500_INTERNAL_SERVER_ERROR == 500
HTTP_504_GATEWAY_TIMEOUT == 504

Reqs == 1..NumReq

\* -------------------------------------------------------------- filesystem
Parent(p) == IF p = <<>> THEN <<>> ELSE SubSeq(p, 1, Len(p) - 1)

\* pathlib's PurePath.parents: every strict ancestor of p.
Parents(p) == {SubSeq(p, 1, n) : n \in 0..(Len(p) - 1)}

\* p is q or lies below q.
Under(p, q) == Len(q) <= Len(p) /\ SubSeq(p, 1, Len(q)) = q

\* Path.resolve() (non-strict realpath): "." and empty segments vanish, ".."
\* pops the path resolved so far, a symlink is replaced by its target; a
\* path that does not exist resolves lexically.
RECURSIVE ResolveFrom(_, _, _)
ResolveFrom(links, acc, segs) ==
    IF segs = <<>> THEN acc
    ELSE LET s == Head(segs)
             p == Append(acc, s)
         IN  IF s = "." \/ s = "" THEN ResolveFrom(links, acc, Tail(segs))
             ELSE IF s = ".." THEN ResolveFrom(links, Parent(acc), Tail(segs))
             ELSE IF p \in DOMAIN links THEN ResolveFrom(links, links[p], Tail(segs))
             ELSE ResolveFrom(links, p, Tail(segs))

\* (base / name).resolve(): pathlib's "/" drops base when name is absolute.
Resolve(f, base, name) ==
    IF name.abs THEN ResolveFrom(f.links, <<>>, name.segs)
    ELSE ResolveFrom(f.links, base, name.segs)

\* What the operating system does with base/name: as ResolveFrom, but every
\* directory walked through must exist. NoPath when the lookup fails.
NoPath == <<"?">>
RECURSIVE Lookup(_, _, _)
Lookup(f, acc, segs) ==
    IF segs = <<>> THEN acc
    ELSE IF acc \notin f.dirs THEN NoPath
    ELSE LET s == Head(segs)
             p == Append(acc, s)
         IN  IF s = "." \/ s = "" THEN Lookup(f, acc, Tail(segs))
             ELSE IF s = ".." THEN Lookup(f, Parent(acc), Tail(segs))
             ELSE IF p \in DOMAIN f.links THEN Lookup(f, f.links[p], Tail(segs))
             ELSE Lookup(f, p, Tail(segs))

is_dir(f, p) == p \in f.dirs
\* (base / name).is_file()
is_file(f, base, name) ==
    Lookup(f, IF name.abs THEN <<>> ELSE base, name.segs) \in f.files

\* Path.mkdir(parents=True, exist_ok=True)
mkdir(f, p) ==
    [f EXCEPT !.dirs = @ \cup {p} \cup {q \in Parents(p) : q \notin f.dirs}]

\* shutil.rmtree(p) when it succeeds: p and everything below it is gone.
rmtree(f, p) ==
    [dirs  |-> {d \in f.dirs : ~Under(d, p)},
     files |-> {x \in f.files : ~Under(x, p)},
     links |-> [l \in {k \in DOMAIN f.links : ~Under(k, p)} |-> f.links[l]],
     text  |-> [x \in {k \in DOMAIN f.text : ~Under(k, p)} |-> f.text[x]]]

\* ------------------------------------------------------------------ inputs
Rel(segs) == [abs |-> FALSE, segs |-> segs]
Abs(segs) == [abs |-> TRUE, segs |-> segs]

\* Folder names a caller may send: "Apple", "Wheat", "New" (absent), "",
\* ".", "..", "../etc", "/etc", "link" (a symlink to /etc), "Apple/sub" and
\* "Apple/../Wheat".
Folders ==
    {Rel(<<"Apple">>), Rel(<<"Wheat">>), Rel(<<"New">>), Rel(<<>>), Rel(<<".">>),
     Rel(<<"..">>), Rel(<<"..", "etc">>), Abs(<<"etc">>), Rel(<<"link">>),
     Rel(<<"Apple", "sub">>), Rel(<<"Apple", "..", "Wheat">>)}

\* experiment_file values: "F.X", "W.X" and "../Wheat/W.X".
ExpFiles == {Rel(<<"F.X">>), Rel(<<"W.X">>), Rel(<<"..", "Wheat", "W.X">>)}

\* The files_names_list values a caller may send: none, one, two and three
\* object keys, each key once.
FileLists ==
    {<<>>, <<"F.X">>, <<"S.SOL", "F.X">>, <<"W.X", "S.SOL", "W.WTH">>}

\* The contains-a-separator / is-a-parent-reference shape of a name.
HasSeparator(name) == name.abs \/ Len(name.segs) > 1
HasDotDot(name) == \E i \in 1..Len(name.segs) : name.segs[i] = ".."

\* A bearer credential, by what the verification finds in it.
TokenFields == {"wellformed", "key", "alg", "signature", "exp", "iss", "aud"}
Token(present, good) == [present |-> present, good |-> good]
NoToken == Token(FALSE, {})
ValidToken == Token(TRUE, TokenFields)
Tokens ==
    {NoToken, ValidToken} \cup {Token(TRUE, TokenFields \ {x}) : x \in TokenFields}

\* A request body: the argument object (its keys, and their values) sent
\* flat or under "args".
Keys == {"folder", "experiment_file", "files_names_list"}
Body(wrapped, keys, folder, exp, files) ==
    [wrapped |-> wrapped, keys |-> keys,
     folder |-> folder, experiment_file |-> exp, files_names_list |-> files]
NoName == Rel(<<>>)
NoBody == Body(FALSE, {}, NoName, NoName, <<>>)
NoArgs == [folder |-> NoName, experiment_file |-> NoName, files_names_list |-> <<>>]

Ops == {"run_dssat_experiment", "download_files_from_s3",
        "upload_and_collect_output_files"}

\* Bodies sent to each operation: every well-formed one, and the ones that
\* lack a required key.
Bodies(o) ==
    IF o = "upload_and_collect_output_files" THEN
        {Body(w, {"folder"}, f, NoName, <<>>) : w \in BOOLEAN, f \in Folders}
        \cup {Body(w, {}, NoName, NoName, <<>>) : w \in BOOLEAN}
    ELSE IF o = "run_dssat_experiment" THEN
        {Body(w, {"folder", "experiment_file"}, x[1], x[2], <<>>) :
            w \in BOOLEAN, x \in Folders \X ExpFiles}
        \cup {Body(w, {"folder"}, Rel(<<"Apple">>), NoName, <<>>) : w \in BOOLEAN}
    ELSE
        {Body(w, Keys, x[1], x[2], x[3]) :
            w \in BOOLEAN, x \in Folders \X ExpFiles \X FileLists}
        \cup {Body(w, {"folder", "experiment_file"}, Rel(<<"Apple">>),
                   Rel(<<"F.X">>), <<>>) : w \in BOOLEAN}

\* ------------------------------------------------------------------- state
VARIABLES
    fs,        \* the filesystem: directories, regular files, symlinks
    cwd,       \* the process-wide current working directory (os.chdir)
    store,     \* the S3 bucket: key -> archive entries
    served,    \* requests received so far
    pc,        \* where each request's handler stands
    op,        \* the operation each request calls
    token,     \* the credential of the request
    payload,   \* the request body, until validated
    args,      \* the typed arguments (RunArgs, DownloadS3Args, ...)
    work_dir,  \* the handler's local work_dir
    errors,    \* download_files_from_s3's errors dict
    idx,       \* position of its loop in files_names_list
    buf,       \* upload_and_collect_output_files' in-memory ZIP
    proc,      \* the child process of run_dssat_experiment
    raised,    \* the exception that ended the handler, if any
    result,    \* the value the handler returned, if any
    effects    \* what the request did outside itself: [kind, dir]

vars == <<fs, cwd, store, served, pc, op, token, payload, args, work_dir,
          errors, idx, buf, proc, raised, result, effects>>

EmptyMap == [x \in {} |-> ""]
NoExc == [cls |-> "none", status |-> 0, detail |-> "", path |-> NoPath,
          errors |-> EmptyMap]
HTTPException(st, detail) ==
    [cls |-> "HTTPException", status |-> st, detail |-> detail, path |-> NoPath,
     errors |-> EmptyMap]
NoResult == [exit_code |-> -1]
NoProc == [state |-> "none", cwd |-> NoPath, argv |-> <<>>, outcome |-> 0]

InitFS ==
    [dirs  |-> {<<>>, <<"srv">>, <<"etc">>, DATA_ROOT, DATA_ROOT \o <<"Apple">>,
                DATA_ROOT \o <<"Apple", "sub">>, DATA_ROOT \o <<"Wheat">>},
     files |-> {<<"etc", "passwd">>, DATA_ROOT \o <<"Apple", "F.X">>,
                DATA_ROOT \o <<"Apple", "sub", "B.OUT">>,
                DATA_ROOT \o <<"Wheat", "W.X">>},
     links |-> (DATA_ROOT \o <<"link">>) :> <<"etc">>,
     text  |-> EmptyMap]

Init ==
    /\ fs = InitFS
    /\ cwd = START_DIR
    /\ store = EmptyMap
    /\ served = 0
    /\ pc = [r \in Reqs |-> "idle"]
    /\ op = [r \in Reqs |-> "none"]
    /\ token = [r \in Reqs |-> NoToken]
    /\ payload = [r \in Reqs |-> NoBody]
    /\ args = [r \in Reqs |-> NoArgs]
    /\ work_dir = [r \in Reqs |-> NoPath]
    /\ errors = [r \in Reqs |-> EmptyMap]
    /\ idx = [r \in Reqs |-> 0]
    /\ buf = [r \in Reqs |-> {}]
    /\ proc = [r \in Reqs |-> NoProc]
    /\ raised = [r \in Reqs |-> NoExc]
    /\ result = [r \in Reqs |-> NoResult]
    /\ effects = [r \in Reqs |-> {}]

\* ---------------------------------------------------------- handler steps
\* The exception e leaves the handler of r.
Raise(r, e) ==
    /\ raised' = [raised EXCEPT ![r] = e]
    /\ pc' = [pc EXCEPT ![r] = "done"]

Effect(kind, dir) == [kind |-> kind, dir |-> dir]
Did(r, kind, dir) == effects' = [effects EXCEPT ![r] = @ \cup {Effect(kind, dir)}]

\* A request reaches the server. Requests are taken one at a time here: the
\* lowest slot, once no handler is running.
Arrive(r, o, t, b) ==
    /\ served < MaxRequests
    /\ \A q \in Reqs : pc[q] = "idle"
    /\ r = 1
    /\ served' = served + 1
    /\ pc' = [pc EXCEPT ![r] = "auth"]
    /\ op' = [op EXCEPT ![r] = o]
    /\ token' = [token EXCEPT ![r] = t]
    /\ payload' = [payload EXCEPT ![r] = b]
    /\ UNCHANGED <<fs, cwd, store, args, work_dir, errors, idx, buf, proc,
                   raised, result, effects>>

\* The reason jwt gives for the first check a credential fails.
RejectReason(t) ==
    IF "wellformed" \notin t.good THEN "DecodeError"
    ELSE IF "key" \notin t.good THEN "PyJWKClientError"
    ELSE IF "alg" \notin t.good THEN "InvalidAlgorithmError"
    ELSE IF "signature" \notin t.good THEN "InvalidSignatureError"
    ELSE IF "exp" \notin t.good THEN "ExpiredSignatureError"
    ELSE IF "iss" \notin t.good THEN "InvalidIssuerError"
    ELSE IF "aud" \notin t.good THEN "InvalidAudienceError"
    ELSE "none"

\* verify without audience=: a credential issued for another API passes.
verify_no_audience(t) ==
    IF ~t.present THEN HTTPException(HTTP_401_UNAUTHORIZED, "Requires authentication")
    ELSE IF (TokenFields \ {"aud"}) \subseteq t.good THEN NoExc
    ELSE HTTPException(HTTP_403_FORBIDDEN, RejectReason(t))

\* VerifyToken.verify: the exception it raises for t, NoExc when it returns
\* the decoded payload.
verify(t) ==
    IF ~t.present THEN HTTPException(HTTP_401_UNAUTHORIZED, "Requires authentication")
    ELSE IF "wellformed" \notin t.good \/ "key" \notin t.good
        THEN HTTPException(HTTP_403_FORBIDDEN, RejectReason(t))
    ELSE IF t.good # TokenFields
        THEN HTTPException(HTTP_403_FORBIDDEN, RejectReason(t))
    ELSE NoExc

\* Security(auth.verify): runs before the handler's body.
Authenticate(r) ==
    /\ pc[r] = "auth"
    /\ IF verify(token[r]) = NoExc
       THEN /\ pc' = [pc EXCEPT ![r] = "validate"]
            /\ UNCHANGED raised
       ELSE Raise(r, verify(token[r]))
    /\ UNCHANGED <<fs, cwd, store, served, op, token, payload, args, work_dir,
                   errors, idx, buf, proc, result, effects>>

\* The keys each handler's first test looks for at the top level of the body.
Required(o) ==
    IF o = "upload_and_collect_output_files" THEN {"folder"}
    ELSE IF o = "run_dssat_experiment" THEN {"folder", "experiment_file"}
    ELSE Keys

ValidationError ==
    [cls |-> "ValidationError", status |-> 0, detail |-> "Field required",
     path |-> NoPath, errors |-> EmptyMap]

\* The handler's first block: the exception it raises for body b, NoExc when
\* it builds the pydantic model. A flat body has its keys at the top level;
\* a wrapped body has only "args" there, and pydantic rejects it when a
\* required field is missing.
validate(o, b) ==
    IF ~b.wrapped /\ Required(o) \subseteq b.keys THEN NoExc
    ELSE IF b.wrapped THEN
        IF Required(o) \subseteq b.keys THEN NoExc ELSE ValidationError
    ELSE HTTPException(HTTP_400_BAD_REQUEST, "Expected keys")

Typed(b) ==
    [folder |-> b.folder, experiment_file |-> b.experiment_file,
     files_names_list |-> b.files_names_list]

FirstStep(o) ==
    IF o = "upload_and_collect_output_files" THEN "u_resolve"
    ELSE IF o = "run_dssat_experiment" THEN "r_resolve"
    ELSE "d_resolve"

\* Validate without the fail-fast: a refused body is noted and the handler
\* goes on to its first step all the same.
Validate_goes_on(r) ==
    /\ pc[r] = "validate"
    /\ payload' = [payload EXCEPT ![r] = NoBody]
    /\ args' = [args EXCEPT ![r] = Typed(payload[r])]
    /\ pc' = [pc EXCEPT ![r] = FirstStep(op[r])]
    /\ raised' = [raised EXCEPT ![r] = validate(op[r], payload[r])]
    /\ UNCHANGED <<fs, cwd, store, served, op, token, work_dir, errors, idx, buf,
                   proc, result, effects>>

Validate(r) ==
    /\ pc[r] = "validate"
    /\ payload' = [payload EXCEPT ![r] = NoBody]
    /\ IF validate(op[r], payload[r]) = NoExc
       THEN /\ args' = [args EXCEPT ![r] = Typed(payload[r])]
            /\ pc' = [pc EXCEPT ![r] = FirstStep(op[r])]
            /\ UNCHANGED raised
       ELSE /\ Raise(r, validate(op[r], payload[r]))
            /\ UNCHANGED args
    /\ UNCHANGED <<fs, cwd, store, served, op, token, work_dir, errors, idx, buf,
                   proc, result, effects>>

\* os.chdir(work_dir) with its except clauses.
NotFound(p) ==
    [cls |-> "HTTPException", status |-> HTTP_404_NOT_FOUND, detail |-> "not found",
     path |-> p, errors |-> EmptyMap]

Chdir(r, next) ==
    /\ IF is_dir(fs, work_dir[r])
       THEN /\ cwd' = work_dir[r]
            /\ Did(r, "chdir", work_dir[r])
            /\ pc' = [pc EXCEPT ![r] = next]
            /\ UNCHANGED raised
       ELSE /\ Raise(r, NotFound(work_dir[r]))
            /\ Did(r, "stat", work_dir[r])
            /\ UNCHANGED cwd
    /\ UNCHANGED <<fs, store, served, op, token, payload, args, work_dir, errors,
                   idx, buf, proc, result>>

\* The folder check without the is_dir() test.
RunFolderOk_any(f, w) == DATA_ROOT \in Parents(w)

\* ------------------------------------------------- run_dssat_experiment
\* work_dir = (DATA_ROOT / args.folder).resolve() and the folder check.
RunFolderOk(f, w) == is_dir(f, w) /\ DATA_ROOT \in Parents(w)

RunResolve(r) ==
    /\ pc[r] = "r_resolve"
    /\ LET w == Resolve(fs, DATA_ROOT, args[r].folder)
       IN  /\ work_dir' = [work_dir EXCEPT ![r] = w]
           /\ Did(r, "stat", w)
           /\ IF RunFolderOk(fs, w)
              THEN /\ pc' = [pc EXCEPT ![r] = "r_chdir"]
                   /\ UNCHANGED raised
              ELSE Raise(r, HTTPException(HTTP_400_BAD_REQUEST, "Invalid folder"))
    /\ UNCHANGED <<fs, cwd, store, served, op, token, payload, args, errors, idx,
                   buf, proc, result>>

RunChdir(r) ==
    /\ pc[r] = "r_chdir"
    /\ Chdir(r, "r_expfile")

\* The handler without its experiment-file test.
RunExpFileOk_unchecked(f, w, e) == TRUE

\* exp_file = work_dir / args.experiment_file; exp_file.is_file()
RunExpFileOk(f, w, e) == is_file(f, w, e)

RunExpFile(r) ==
    /\ pc[r] = "r_expfile"
    /\ Did(r, "stat", work_dir[r])
    /\ IF RunExpFileOk(fs, work_dir[r], args[r].experiment_file)
       THEN /\ pc' = [pc EXCEPT ![r] = "r_launch"]
            /\ UNCHANGED raised
       ELSE Raise(r, HTTPException(HTTP_400_BAD_REQUEST, "Experiment file not found"))
    /\ UNCHANGED <<fs, cwd, store, served, op, token, payload, args, work_dir,
                   errors, idx, buf, proc, result>>

\* cmd = [str(DSSAT_EXE), "A", args.experiment_file]
Cmd(a) == <<DSSAT_EXE, "A", a.experiment_file>>

\* The launch without cwd=work_dir: the child starts in the process's current
\* directory.
RunLaunch_in_cwd(r) ==
    /\ pc[r] = "r_launch"
    /\ proc' = [proc EXCEPT ![r] =
            [state |-> "running", cwd |-> cwd, argv |-> Cmd(args[r]), outcome |-> 0]]
    /\ Did(r, "launch", cwd)
    /\ pc' = [pc EXCEPT ![r] = "r_wait"]
    /\ UNCHANGED <<fs, cwd, store, served, op, token, payload, args, work_dir,
                   errors, idx, buf, raised, result>>

\* subprocess.run(cmd, cwd=work_dir, ...) starts the child in work_dir, given
\* as an absolute path; when work_dir is gone by now the FileNotFoundError
\* of the launch leaves the handler uncaught.
FileNotFoundError ==
    [cls |-> "FileNotFoundError", status |-> 0, detail |-> "No such file or directory",
     path |-> NoPath, errors |-> EmptyMap]

RunLaunch(r) ==
    /\ pc[r] = "r_launch"
    /\ IF is_dir(fs, work_dir[r])
       THEN /\ proc' = [proc EXCEPT ![r] =
                    [state |-> "running", cwd |-> work_dir[r],
                     argv |-> Cmd(args[r]), outcome |-> 0]]
            /\ Did(r, "launch", work_dir[r])
            /\ pc' = [pc EXCEPT ![r] = "r_wait"]
            /\ UNCHANGED raised
       ELSE /\ Raise(r, FileNotFoundError)
            /\ UNCHANGED <<proc, effects>>
    /\ UNCHANGED <<fs, cwd, store, served, op, token, payload, args, work_dir,
                   errors, idx, buf, result>>

\* s[-10000:]
TAIL == 10000

\* What a finished child leaves: exit code, the two captured streams, and
\* whether it wrote SUMMARY.OUT into its working directory. A stream of n
\* characters is written as its characters' positions 1..n.
Chars(n) == [i \in 1..n |-> i]
Outcome(code, out, err, summary) ==
    [exit_code |-> code, stdout |-> out, stderr |-> err, summary |-> summary]
Outcomes ==
    <<Outcome(0, Chars(2), Chars(0), TRUE),
      Outcome(0, Chars(1), Chars(1), FALSE),
      Outcome(3, Chars(0), Chars(3), TRUE),
      Outcome(1, Chars(TAIL + 3), Chars(2), FALSE),
      Outcome(0, Chars(TAIL), Chars(TAIL + 1), FALSE)>>

\* A line of SUMMARY.OUT is the sequence of its characters, the newline
\* included. BadByte stands for a byte that is no character in the encoding
\* the file is opened with. The columns are fixed: the experiment code from
\* column 0, the planting date from column 19, the yield from column 65.
BadByte == "\\xF1"
Field(chars, width) == chars \o [i \in 1..(width - Len(chars)) |-> " "]
DataLine(expt, date, yield) ==
    Field(expt, 19) \o Field(date, 46) \o Field(yield, 7) \o <<"\n">>

HeaderLine == <<"@", "R", "U", "N", "\n">>
BlankLine == <<" ", "\n">>
GoodLine ==
    DataLine(<<"U", "F", "G", "A">>, <<"8", "2", "0", "5", "7">>,
             <<" ", " ", "3", "5", "0", "0">>)
DecimalLine ==
    DataLine(<<"C", "I", "A", "T">>, <<"9", "0", "1", "2", "0">>,
             <<"-", "9", "9", ".", "5", "0">>)
BadYieldLine ==
    DataLine(<<"U", "F", "G", "A">>, <<"8", "2", "0", "5", "7">>, <<"*", "*", "*">>)

\* Lines a SUMMARY.OUT may hold besides: one too short to have the yield
\* columns, one with blank yield columns, one with "@" behind a blank, one
\* with a byte that cannot be decoded.
ShortLine == <<"U", "F", "G", "A", " ", "x", "\n">>
EmptyYieldLine == DataLine(<<"U", "F", "G", "A">>, <<"8", "2", "0", "5", "7">>, <<>>)
IndentedAtLine == DataLine(<<" ", "@", "X">>, <<>>, <<"1", "2">>)
UndecodableLine ==
    DataLine(<<"U", "F", BadByte>>, <<"8", "2", "0", "5", "7">>, <<"3", "5", "0", "0">>)
LineKinds ==
    {HeaderLine, BlankLine, GoodLine, DecimalLine, BadYieldLine, ShortLine,
     EmptyYieldLine, IndentedAtLine, UndecodableLine}

\* What the child writes when it writes SUMMARY.OUT.
SummaryOut == <<HeaderLine, GoodLine, BadYieldLine, DecimalLine>>

\* The child exits by itself within the timeout.
RunExit(r, n) ==
    /\ pc[r] = "r_wait"
    /\ proc[r].state = "running"
    /\ proc' = [proc EXCEPT ![r].state = "exited", ![r].outcome = n]
    /\ fs' = IF Outcomes[n].summary /\ is_dir(fs, proc[r].cwd)
             THEN [fs EXCEPT !.files = @ \cup {proc[r].cwd \o <<"SUMMARY.OUT">>},
                             !.text = (proc[r].cwd \o <<"SUMMARY.OUT">> :> SummaryOut) @@ @]
             ELSE fs
    /\ pc' = [pc EXCEPT ![r] = "r_result"]
    /\ UNCHANGED <<cwd, store, served, op, token, payload, args, work_dir, errors,
                   idx, buf, raised, result, effects>>

\* The timeout without the kill: the child is left running.
RunTimeout_orphan(r) ==
    /\ pc[r] = "r_wait"
    /\ proc[r].state = "running"
    /\ Raise(r, HTTPException(HTTP_504_GATEWAY_TIMEOUT, "DSSAT run timed out"))
    /\ UNCHANGED <<fs, cwd, store, served, op, token, payload, args, work_dir,
                   errors, idx, buf, proc, result, effects>>

\* timeout=600 expires: subprocess.run kills the child, waits for it and
\* raises TimeoutExpired, which the handler turns into a 504.
RunTimeout(r) ==
    /\ pc[r] = "r_wait"
    /\ proc[r].state = "running"
    /\ proc' = [proc EXCEPT ![r].state = "killed"]
    /\ Raise(r, HTTPException(HTTP_504_GATEWAY_TIMEOUT, "DSSAT run timed out"))
    /\ UNCHANGED <<fs, cwd, store, served, op, token, payload, args, work_dir,
                   errors, idx, buf, result, effects>>

Max(a, b) == IF a > b THEN a ELSE b
Min(a, b) == IF a < b THEN a ELSE b

\* s[:10000], the head in place of the tail.
tail_head(s) == SubSeq(s, 1, Min(Len(s), TAIL))

\* s[-10000:]
tail(s) == SubSeq(s, Max(1, Len(s) - TAIL + 1), Len(s))

\* ------------------------------------------------------- _parse_summary
Whitespace == {" ", "\t", "\n", "\r"}
Digits == {"0", "1", "2", "3", "4", "5", "6", "7", "8", "9"}
DigitVal ==
    ("0" :> 0) @@ ("1" :> 1) @@ ("2" :> 2) @@ ("3" :> 3) @@ ("4" :> 4) @@
    ("5" :> 5) @@ ("6" :> 6) @@ ("7" :> 7) @@ ("8" :> 8) @@ ("9" :> 9)

\* line[a:b] for 0 <= a <= b
Slice(line, a, b) == SubSeq(line, a + 1, Min(b, Len(line)))

\* line.startswith("@")
startswith_at(line) == Len(line) > 0 /\ line[1] = "@"

\* str.strip()
RECURSIVE lstrip(_)
lstrip(t) == IF t # <<>> /\ Head(t) \in Whitespace THEN lstrip(Tail(t)) ELSE t
RECURSIVE rstrip(_)
rstrip(t) ==
    IF t # <<>> /\ t[Len(t)] \in Whitespace THEN rstrip(SubSeq(t, 1, Len(t) - 1)) ELSE t
strip(t) == rstrip(lstrip(t))

\* float(t) for the plain decimal forms: an optional sign, digits, at most
\* one point, at least one digit. Anything else is a ValueError here.
Unsigned(t) == IF t # <<>> /\ t[1] \in {"+", "-"} THEN Tail(t) ELSE t
Points(t) == {i \in 1..Len(t) : t[i] = "."}
float_ok(t) ==
    LET u == Unsigned(t)
    IN  /\ \A i \in 1..Len(u) : u[i] \in Digits \cup {"."}
        /\ \E i \in 1..Len(u) : u[i] \in Digits
        /\ Cardinality(Points(u)) <= 1

RECURSIVE ToNat(_)
ToNat(ds) ==
    IF ds = <<>> THEN 0
    ELSE 10 * ToNat(SubSeq(ds, 1, Len(ds) - 1)) + DigitVal[ds[Len(ds)]]

\* The number as mantissa * 10^exp with no trailing zero behind the point.
RECURSIVE Normal(_, _)
Normal(m, e) ==
    IF e < 0 /\ m % 10 = 0 THEN Normal(m \div 10, e + 1) ELSE [mant |-> m, exp |-> e]

float(t) ==
    LET u == Unsigned(t)
        ds == SelectSeq(u, LAMBDA c : c \in Digits)
        e == IF Points(u) = {} THEN 0 ELSE (CHOOSE i \in Points(u) : TRUE) - Len(u)
        m == ToNat(ds)
    IN  Normal(IF t[1] = "-" THEN 0 - m ELSE m, e)

\* The loop over the lines: header and blank lines are passed over, and so
\* is a line whose handling raises, which is the float() of columns 65-72.
RECURSIVE ParseLines(_, _)
ParseLines(lines, kpis) ==
    IF lines = <<>> THEN kpis
    ELSE LET line == Head(lines)
             yield == strip(Slice(line, 65, 72))
         IN  IF startswith_at(line) \/ strip(line) = <<>>
             THEN ParseLines(Tail(lines), kpis)
             ELSE IF float_ok(yield)
             THEN ParseLines(Tail(lines),
                    Append(kpis, [expt |-> strip(Slice(line, 0, 8)),
                                  pl_date |-> strip(Slice(line, 19, 25)),
                                  yield_kg_ha |-> float(yield)]))
             ELSE ParseLines(Tail(lines), kpis)

\* What is read from work_dir / "SUMMARY.OUT".
TextOf(f, x) == IF x \in DOMAIN f.text THEN f.text[x] ELSE <<>>
Decodable(text) ==
    \A i \in 1..Len(text) : \A j \in 1..Len(text[i]) : text[i][j] # BadByte

\* Reading the lines decodes them, outside the try of the loop body: a byte
\* that cannot be decoded ends _parse_summary with a UnicodeDecodeError.
UnicodeDecodeError ==
    [cls |-> "UnicodeDecodeError", status |-> 0, detail |-> "invalid start byte",
     path |-> NoPath, errors |-> EmptyMap]
parse_raises(f, w) ==
    /\ is_file(f, w, Rel(<<"SUMMARY.OUT">>))
    /\ ~Decodable(TextOf(f, Lookup(f, w, <<"SUMMARY.OUT">>)))

\* _parse_summary(work_dir): None when SUMMARY.OUT is no regular file.
NoSummary == [none |-> TRUE, n_treatments |-> 0, treatments |-> <<>>]
_parse_summary(f, w) ==
    IF is_file(f, w, Rel(<<"SUMMARY.OUT">>))
    THEN LET kpis == ParseLines(TextOf(f, Lookup(f, w, <<"SUMMARY.OUT">>)), <<>>)
         IN  [none |-> FALSE, n_treatments |-> Len(kpis), treatments |-> kpis]
    ELSE NoSummary

\* The return after a launch with check=True: a non-zero exit code raises
\* CalledProcessError.
CalledProcessError ==
    [cls |-> "CalledProcessError", status |-> 0, detail |-> "non-zero exit status",
     path |-> NoPath, errors |-> EmptyMap]
RunReturn_check(r) ==
    /\ pc[r] = "r_result"
    /\ Did(r, "read", work_dir[r])
    /\ IF Outcomes[proc[r].outcome].exit_code # 0
       THEN /\ Raise(r, CalledProcessError)
            /\ UNCHANGED result
       ELSE /\ result' = [result EXCEPT ![r] =
                    [exit_code |-> Outcomes[proc[r].outcome].exit_code,
                     stdout |-> tail(Outcomes[proc[r].outcome].stdout),
                     stderr |-> tail(Outcomes[proc[r].outcome].stderr),
                     summary |-> _parse_summary(fs, work_dir[r])]]
            /\ pc' = [pc EXCEPT ![r] = "done"]
            /\ UNCHANGED raised
    /\ UNCHANGED <<fs, cwd, store, served, op, token, payload, args, work_dir,
                   errors, idx, buf, proc>>

\* RunResult(exit_code=..., stdout=..., stderr=..., summary=...) and return.
RunReturn(r) ==
    /\ pc[r] = "r_result"
    /\ Did(r, "read", work_dir[r])
    /\ IF parse_raises(fs, work_dir[r])
       THEN /\ Raise(r, UnicodeDecodeError)
            /\ UNCHANGED result
       ELSE /\ result' = [result EXCEPT ![r] =
                    [exit_code |-> Outcomes[proc[r].outcome].exit_code,
                     stdout |-> tail(Outcomes[proc[r].outcome].stdout),
                     stderr |-> tail(Outcomes[proc[r].outcome].stderr),
                     summary |-> _parse_summary(fs, work_dir[r])]]
            /\ pc' = [pc EXCEPT ![r] = "done"]
            /\ UNCHANGED raised
    /\ UNCHANGED <<fs, cwd, store, served, op, token, payload, args, work_dir,
                   errors, idx, buf, proc>>

\* ----------------------------------------------- download_files_from_s3
\* DATA_ROOT not in work_dir.parents
FetchFolderOk(w) == DATA_ROOT \in Parents(w)

FetchResolve(r) ==
    /\ pc[r] = "d_resolve"
    /\ LET w == Resolve(fs, DATA_ROOT, args[r].folder)
       IN  /\ work_dir' = [work_dir EXCEPT ![r] = w]
           /\ IF FetchFolderOk(w)
              THEN /\ pc' = [pc EXCEPT ![r] = "d_mkdir"]
                   /\ UNCHANGED raised
              ELSE Raise(r, HTTPException(HTTP_400_BAD_REQUEST,
                                          "Invalid folder (outside DATA_ROOT)"))
    /\ UNCHANGED <<fs, cwd, store, served, op, token, payload, args, errors, idx,
                   buf, proc, result, effects>>

\* work_dir.mkdir(parents=True, exist_ok=True)
FetchMkdir(r) ==
    /\ pc[r] = "d_mkdir"
    /\ fs' = mkdir(fs, work_dir[r])
    /\ Did(r, "mkdir", work_dir[r])
    /\ pc' = [pc EXCEPT ![r] = "d_chdir"]
    /\ UNCHANGED <<cwd, store, served, op, token, payload, args, work_dir, errors,
                   idx, buf, proc, raised, result>>

FetchChdir(r) ==
    /\ pc[r] = "d_chdir"
    /\ Chdir(r, "d_download")

\* One turn of the loop: s3.download_file(S3_BUCKET, s3_file, f"./{s3_file}")
\* writes into the process's current directory, or fails with a ClientError
\* or with another exception; either failure is noted in errors.
DownloadOutcomes == {"ok", "ClientError", "Exception"}
Reason(oc) == IF oc = "ClientError" THEN "S3 ClientError" ELSE "Unexpected error"

FetchDownload(r, oc) ==
    /\ pc[r] = "d_download"
    /\ idx[r] < Len(args[r].files_names_list)
    /\ oc = "ok" => is_dir(fs, cwd)
    /\ LET s3_file == args[r].files_names_list[idx[r] + 1]
       IN  /\ idx' = [idx EXCEPT ![r] = @ + 1]
           /\ IF oc = "ok"
              THEN /\ fs' = [fs EXCEPT !.files = @ \cup {Append(cwd, s3_file)}]
                   /\ effects' = [effects EXCEPT ![r] =
                            @ \cup {Effect("s3_download", cwd), Effect("write", cwd)}]
                   /\ UNCHANGED errors
              ELSE /\ errors' = [errors EXCEPT ![r] = (s3_file :> Reason(oc)) @@ @]
                   /\ Did(r, "s3_download", cwd)
                   /\ UNCHANGED fs
    /\ UNCHANGED <<cwd, store, served, pc, op, token, payload, args, work_dir,
                   buf, proc, raised, result>>

RuntimeError(errs) ==
    [cls |-> "RuntimeError", status |-> 0, detail |-> "One or more downloads failed",
     path |-> NoPath, errors |-> errs]

\* The end of the handler without the errors test.
FetchFinish_ignores_errors(r) ==
    /\ pc[r] = "d_download"
    /\ idx[r] = Len(args[r].files_names_list)
    /\ Did(r, "stat", work_dir[r])
    /\ IF is_file(fs, work_dir[r], args[r].experiment_file)
       THEN /\ result' = [result EXCEPT ![r] =
                    [exit_code |-> HTTP_200_OK, folder_name |-> args[r].folder]]
            /\ pc' = [pc EXCEPT ![r] = "done"]
            /\ UNCHANGED raised
       ELSE /\ Raise(r, HTTPException(HTTP_400_BAD_REQUEST,
                                      "Experiment file not found"))
            /\ UNCHANGED result
    /\ UNCHANGED <<fs, cwd, store, served, op, token, payload, args, work_dir,
                   errors, idx, buf, proc>>

\* After the loop: the errors test, the experiment-file test, the result.
FetchFinish(r) ==
    /\ pc[r] = "d_download"
    /\ idx[r] = Len(args[r].files_names_list)
    /\ IF errors[r] # EmptyMap
       THEN /\ Raise(r, RuntimeError(errors[r]))
            /\ UNCHANGED <<result, effects>>
       ELSE /\ Did(r, "stat", work_dir[r])
            /\ IF is_file(fs, work_dir[r], args[r].experiment_file)
               THEN /\ result' = [result EXCEPT ![r] =
                            [exit_code |-> HTTP_200_OK, folder_name |-> args[r].folder]]
                    /\ pc' = [pc EXCEPT ![r] = "done"]
                    /\ UNCHANGED raised
               ELSE /\ Raise(r, HTTPException(HTTP_400_BAD_REQUEST,
                                              "Experiment file not found"))
                    /\ UNCHANGED result
    /\ UNCHANGED <<fs, cwd, store, served, op, token, payload, args, work_dir,
                   errors, idx, buf, proc>>

\* -------------------------------------- upload_and_collect_output_files
\* work_dir = (DATA_ROOT / args.folder).resolve(), with no test after it.
CollectResolve(r) ==
    /\ pc[r] = "u_resolve"
    /\ work_dir' = [work_dir EXCEPT ![r] = Resolve(fs, DATA_ROOT, args[r].folder)]
    /\ pc' = [pc EXCEPT ![r] = "u_chdir"]
    /\ UNCHANGED <<fs, cwd, store, served, op, token, payload, args, errors, idx,
                   buf, proc, raised, result, effects>>

CollectChdir(r) ==
    /\ pc[r] = "u_chdir"
    /\ Chdir(r, "u_zip")

\* key = f"{args.folder}.zip": the caller's folder name with ".zip" behind.
key(folder) == <<folder, ".zip">>

\* The archive with every entry under the file's bare name.
Entries_basename(f, w) == {<<x[Len(x)]>> : x \in {y \in f.files : Under(y, w)}}

\* str(full.relative_to(work_dir)) for every file os.walk(work_dir) yields.
Entries(f, w) == {SubSeq(x, Len(w) + 1, Len(x)) : x \in {y \in f.files : Under(y, w)}}

\* The ZIP is built in memory; reading a file may fail.
CollectZip(r, ok) ==
    /\ pc[r] = "u_zip"
    /\ Did(r, "archive", work_dir[r])
    /\ IF ok
       THEN /\ buf' = [buf EXCEPT ![r] = Entries(fs, work_dir[r])]
            /\ pc' = [pc EXCEPT ![r] = "u_upload"]
            /\ UNCHANGED raised
       ELSE /\ Raise(r, HTTPException(HTTP_500_INTERNAL_SERVER_ERROR,
                                      "Failed to create ZIP file"))
            /\ UNCHANGED buf
    /\ UNCHANGED <<fs, cwd, store, served, op, token, payload, args, work_dir,
                   errors, idx, proc, result>>

\* key = f"{args.folder}.zip"; s3.upload_fileobj(buf, S3_BUCKET, key)
UploadOutcomes == {"ok", "ClientError", "Exception"}
CollectUpload(r, oc) ==
    /\ pc[r] = "u_upload"
    /\ Did(r, "s3_upload", work_dir[r])
    /\ IF oc = "ok"
       THEN /\ store' = (key(args[r].folder) :> buf[r]) @@ store
            /\ pc' = [pc EXCEPT ![r] = "u_rmtree"]
            /\ UNCHANGED raised
       ELSE /\ Raise(r, HTTPException(HTTP_500_INTERNAL_SERVER_ERROR,
                         IF oc = "ClientError" THEN "S3 ClientError"
                         ELSE "Failed to upload ZIP to S3"))
            /\ UNCHANGED store
    /\ UNCHANGED <<fs, cwd, served, op, token, payload, args, work_dir, errors,
                   idx, buf, proc, result>>

\* The removal under a per-folder lock: it waits while a run that has passed
\* its checks is still working in the same folder.
CollectRmtree_locked(r, removed) ==
    /\ pc[r] = "u_rmtree"
    /\ \A q \in Reqs :
            ~(/\ q # r
              /\ work_dir[q] = work_dir[r]
              /\ pc[q] \in {"r_chdir", "r_expfile", "r_launch", "r_wait", "r_result"})
    /\ IF removed
       THEN /\ fs' = rmtree(fs, work_dir[r])
            /\ Did(r, "rmtree", work_dir[r])
       ELSE /\ Did(r, "rmtree_failed", work_dir[r])
            /\ UNCHANGED fs
    /\ result' = [result EXCEPT ![r] =
            [exit_code |-> HTTP_200_OK, s3_presigned_url |-> key(args[r].folder)]]
    /\ pc' = [pc EXCEPT ![r] = "done"]
    /\ UNCHANGED <<cwd, store, served, op, token, payload, args, work_dir, errors,
                   idx, buf, proc, raised>>

\* shutil.rmtree(work_dir, ignore_errors=True) never raises: the tree is
\* removed, or the removal fails and the failure is dropped. Then the
\* presigned URL for key and the result object.
CollectRmtree(r, removed) ==
    /\ pc[r] = "u_rmtree"
    /\ IF removed
       THEN /\ fs' = rmtree(fs, work_dir[r])
            /\ Did(r, "rmtree", work_dir[r])
       ELSE /\ Did(r, "rmtree_failed", work_dir[r])
            /\ UNCHANGED fs
    /\ result' = [result EXCEPT ![r] =
            [exit_code |-> HTTP_200_OK, s3_presigned_url |-> key(args[r].folder)]]
    /\ pc' = [pc EXCEPT ![r] = "done"]
    /\ UNCHANGED <<cwd, store, served, op, token, payload, args, work_dir, errors,
                   idx, buf, proc, raised>>

\* ---------------------------------------------------------------- server
\* What FastAPI sends back for request r: the returned object, the status
\* and detail of an HTTPException, or a bare 500 for any other exception.
Response(r) ==
    IF raised[r].cls = "none" THEN
        [status |-> HTTP_200_OK, detail |-> "", path |-> NoPath,
         errors |-> EmptyMap, body |-> result[r]]
    ELSE IF raised[r].cls = "HTTPException" THEN
        [status |-> raised[r].status, detail |-> raised[r].detail,
         path |-> raised[r].path, errors |-> raised[r].errors, body |-> NoResult]
    ELSE
        [status |-> HTTP_500_INTERNAL_SERVER_ERROR, detail |-> "Internal Server Error",
         path |-> NoPath, errors |-> EmptyMap, body |-> NoResult]

\* The response is sent and the slot is free again.
Respond(r) ==
    /\ pc[r] = "done"
    /\ pc' = [pc EXCEPT ![r] = "idle"]
    /\ op' = [op EXCEPT ![r] = "none"]
    /\ token' = [token EXCEPT ![r] = NoToken]
    /\ args' = [args EXCEPT ![r] = NoArgs]
    /\ work_dir' = [work_dir EXCEPT ![r] = NoPath]
    /\ errors' = [errors EXCEPT ![r] = EmptyMap]
    /\ idx' = [idx EXCEPT ![r] = 0]
    /\ buf' = [buf EXCEPT ![r] = {}]
    /\ proc' = [proc EXCEPT ![r] = NoProc]
    /\ raised' = [raised EXCEPT ![r] = NoExc]
    /\ result' = [result EXCEPT ![r] = NoResult]
    /\ effects' = [effects EXCEPT ![r] = {}]
    /\ UNCHANGED <<fs, cwd, store, served, payload>>

\* What a client sends: any body with a valid credential, and any
\* credential with one body.
Sent(o) ==
    {<<ValidToken, b>> : b \in Bodies(o)}
    \cup {<<t, Body(FALSE, Keys, Rel(<<"Apple">>), Rel(<<"F.X">>), <<"F.X">>)>> :
            t \in Tokens}

Next ==
    \/ \E r \in Reqs, o \in Ops : \E m \in Sent(o) : Arrive(r, o, m[1], m[2])
    \/ \E r \in Reqs : Authenticate(r)
    \/ \E r \in Reqs : Validate(r)
    \/ \E r \in Reqs : RunResolve(r)
    \/ \E r \in Reqs : RunChdir(r)
    \/ \E r \in Reqs : RunExpFile(r)
    \/ \E r \in Reqs : RunLaunch(r)
    \/ \E r \in Reqs : \E n \in DOMAIN Outcomes : RunExit(r, n)
    \/ \E r \in Reqs : RunTimeout(r)
    \/ \E r \in Reqs : RunReturn(r)
    \/ \E r \in Reqs : FetchResolve(r)
    \/ \E r \in Reqs : FetchMkdir(r)
    \/ \E r \in Reqs : FetchChdir(r)
    \/ \E r \in Reqs : \E oc \in DownloadOutcomes : FetchDownload(r, oc)
    \/ \E r \in Reqs : FetchFinish(r)
    \/ \E r \in Reqs : CollectResolve(r)
    \/ \E r \in Reqs : CollectChdir(r)
    \/ \E r \in Reqs : \E ok \in BOOLEAN : CollectZip(r, ok)
    \/ \E r \in Reqs : \E oc \in UploadOutcomes : CollectUpload(r, oc)
    \/ \E r \in Reqs : \E removed \in BOOLEAN : CollectRmtree(r, removed)
    \/ \E r \in Reqs : Respond(r)

Spec == Init /\ [][Next]_vars

\* ------------------------------------------------- concurrent requests
\* The handlers are plain functions, so the server runs them on worker
\* threads: a request arrives on any free slot while others are under way.
\* Every slot takes one request; the clients hold valid credentials and send
\* well-formed bodies: runs in Apple, downloads into Wheat, collects of either.
SentConc(o) ==
    IF o = "upload_and_collect_output_files" THEN
        {Body(FALSE, {"folder"}, f, NoName, <<>>) :
            f \in {Rel(<<"Apple">>), Rel(<<"Wheat">>)}}
    ELSE IF o = "run_dssat_experiment" THEN
        {Body(FALSE, {"folder", "experiment_file"}, Rel(<<"Apple">>), Rel(<<"F.X">>), <<>>)}
    ELSE
        {Body(FALSE, Keys, Rel(<<"Wheat">>), Rel(<<"W.X">>), <<"S.SOL">>)}

\* The outcomes of the child drawn here are those with short streams.
ShortOutcomes ==
    {n \in DOMAIN Outcomes :
        Len(Outcomes[n].stdout) < TAIL /\ Len(Outcomes[n].stderr) < TAIL}

ArriveConc(r, o, b) ==
    /\ pc[r] = "idle"
    /\ r = served + 1
    /\ served' = served + 1
    /\ pc' = [pc EXCEPT ![r] = "auth"]
    /\ op' = [op EXCEPT ![r] = o]
    /\ token' = [token EXCEPT ![r] = ValidToken]
    /\ payload' = [payload EXCEPT ![r] = b]
    /\ UNCHANGED <<fs, cwd, store, args, work_dir, errors, idx, buf, proc,
                   raised, result, effects>>

NextConc ==
    \/ \E r \in Reqs, o \in Ops : \E b \in SentConc(o) : ArriveConc(r, o, b)
    \/ \E r \in Reqs : Authenticate(r)
    \/ \E r \in Reqs : Validate(r)
    \/ \E r \in Reqs : RunResolve(r)
    \/ \E r \in Reqs : RunChdir(r)
    \/ \E r \in Reqs : RunExpFile(r)
    \/ \E r \in Reqs : RunLaunch(r)
    \/ \E r \in Reqs : \E n \in ShortOutcomes : RunExit(r, n)
    \/ \E r \in Reqs : RunTimeout(r)
    \/ \E r \in Reqs : RunReturn(r)
    \/ \E r \in Reqs : FetchResolve(r)
    \/ \E r \in Reqs : FetchMkdir(r)
    \/ \E r \in Reqs : FetchChdir(r)
    \/ \E r \in Reqs : \E oc \in DownloadOutcomes : FetchDownload(r, oc)
    \/ \E r \in Reqs : FetchFinish(r)
    \/ \E r \in Reqs : CollectResolve(r)
    \/ \E r \in Reqs : CollectChdir(r)
    \/ \E r \in Reqs : \E ok \in BOOLEAN : CollectZip(r, ok)
    \/ \E r \in Reqs : \E oc \in UploadOutcomes : CollectUpload(r, oc)
    \/ \E r \in Reqs : \E removed \in BOOLEAN : CollectRmtree(r, removed)

SpecConc == Init /\ [][NextConc]_vars

\* ------------------------------------------------ the summary of a run
\* The return step of a run over every SUMMARY.OUT of up to MaxLines lines:
\* the run of F.X in Apple has passed its checks, its child has ended, and
\* the folder holds no SUMMARY.OUT or one with any such text.
Texts == UNION {[1..n -> LineKinds] : n \in 0..MaxLines}
AppleRun == [folder |-> Rel(<<"Apple">>), experiment_file |-> Rel(<<"F.X">>),
             files_names_list |-> <<>>]
Apple == DATA_ROOT \o <<"Apple">>
WithSummary(text) ==
    [InitFS EXCEPT !.files = @ \cup {Append(Apple, "SUMMARY.OUT")},
                   !.text = (Append(Apple, "SUMMARY.OUT") :> text) @@ @]

InitParse ==
    /\ fs \in {InitFS} \cup {WithSummary(text) : text \in Texts}
    /\ cwd = Apple
    /\ store = EmptyMap
    /\ served = 1
    /\ pc = [r \in Reqs |-> IF r = 1 THEN "r_result" ELSE "idle"]
    /\ op = [r \in Reqs |-> IF r = 1 THEN "run_dssat_experiment" ELSE "none"]
    /\ token = [r \in Reqs |-> IF r = 1 THEN ValidToken ELSE NoToken]
    /\ payload = [r \in Reqs |-> NoBody]
    /\ args = [r \in Reqs |-> IF r = 1 THEN AppleRun ELSE NoArgs]
    /\ work_dir = [r \in Reqs |-> IF r = 1 THEN Apple ELSE NoPath]
    /\ errors = [r \in Reqs |-> EmptyMap]
    /\ idx = [r \in Reqs |-> 0]
    /\ buf = [r \in Reqs |-> {}]
    /\ proc = [r \in Reqs |->
                IF r = 1 THEN [state |-> "exited", cwd |-> Apple,
                               argv |-> Cmd(AppleRun), outcome |-> 2]
                ELSE NoProc]
    /\ raised = [r \in Reqs |-> NoExc]
    /\ result = [r \in Reqs |-> NoResult]
    /\ effects = [r \in Reqs |->
                IF r = 1 THEN {Effect("stat", Apple), Effect("chdir", Apple),
                               Effect("launch", Apple)}
                ELSE {}]

NextParse ==
    \/ \E r \in Reqs : RunReturn(r)
    \/ \E r \in Reqs : Respond(r)

SpecParse == InitParse /\ [][NextParse]_vars

\* ------------------------------------------------------------ properties
Run == "run_dssat_experiment"
Fetch == "download_files_from_s3"
Collect == "upload_and_collect_output_files"

\* The request got past input validation: its folder was resolved.
Resolved(r) == work_dir[r] # NoPath

InvalidFolder(resp) ==
    /\ resp.status = HTTP_400_BAD_REQUEST
    /\ resp.detail \in {"Invalid folder", "Invalid folder (outside DATA_ROOT)"}

ExperimentFileNotFound(resp) ==
    /\ resp.status = HTTP_400_BAD_REQUEST
    /\ resp.detail = "Experiment file not found"

\* Effects that use a directory, and those that change the filesystem.
DirKinds == {"chdir", "mkdir", "read", "archive", "launch", "rmtree"}
MutationKinds == {"mkdir", "write", "rmtree"}

\* C1: in all three operations every directory the handler changes into,
\* creates, reads, archives, launches a process in or deletes is a strict
\* descendant of DATA_ROOT, and a request whose folder resolves to DATA_ROOT
\* itself or outside it ends with InvalidFolder.
C1_Confined ==
    \A r \in Reqs :
        /\ \A e \in effects[r] : e.kind \in DirKinds => DATA_ROOT \in Parents(e.dir)
        /\ (pc[r] = "done" /\ Resolved(r) /\ DATA_ROOT \notin Parents(work_dir[r]))
                => InvalidFolder(Response(r))

\* C2: in all three operations a folder name holding ".." or a separator is
\* rejected with InvalidFolder and the request changes nothing on the
\* filesystem.
C2_SeparatorRejected ==
    \A r \in Reqs :
        (Resolved(r) /\ (HasSeparator(args[r].folder) \/ HasDotDot(args[r].folder)))
            => /\ \A e \in effects[r] : e.kind \notin MutationKinds
               /\ pc[r] = "done" => InvalidFolder(Response(r))

\* The stage a handler position belongs to: 1 authenticate, 2 validate the
\* input shape, 3 resolve the folder, 4 the operation's work, 5 the response.
Stage(p) ==
    IF p = "auth" THEN 1
    ELSE IF p = "validate" THEN 2
    ELSE IF p \in {"r_resolve", "d_resolve", "u_resolve"} THEN 3
    ELSE IF p = "done" THEN 5
    ELSE 4

Failed(r) == raised[r] # NoExc

ReasonOf(x) ==
    IF x = "wellformed" THEN "DecodeError"
    ELSE IF x = "key" THEN "PyJWKClientError"
    ELSE IF x = "alg" THEN "InvalidAlgorithmError"
    ELSE IF x = "signature" THEN "InvalidSignatureError"
    ELSE IF x = "exp" THEN "ExpiredSignatureError"
    ELSE IF x = "iss" THEN "InvalidIssuerError"
    ELSE "InvalidAudienceError"

\* C4: the handler runs only for a credential whose key was resolved and
\* whose signature, expiry, issuer, audience and algorithm all verified; no
\* credential gives 401, and an unresolvable key, a malformed credential or
\* a failed check gives 403 with the reason of a failed check.
C4_Verify ==
    \A r \in Reqs :
        pc[r] \notin {"idle", "auth"} =>
            LET t == token[r]
                resp == Response(r)
            IN  /\ pc[r] # "done" => t = ValidToken
                /\ effects[r] # {} => t = ValidToken
                /\ ~t.present
                      => /\ pc[r] = "done"
                         /\ resp.status = HTTP_401_UNAUTHORIZED
                         /\ resp.detail = "Requires authentication"
                /\ (t.present /\ t.good # TokenFields)
                      => /\ pc[r] = "done"
                         /\ resp.status = HTTP_403_FORBIDDEN
                         /\ resp.detail \in {ReasonOf(x) : x \in TokenFields \ t.good}
                /\ t = ValidToken
                      => resp.status \notin {HTTP_401_UNAUTHORIZED, HTTP_403_FORBIDDEN}

\* An expired credential was refused with 403 and its reason.
C4_Witness ==
    \E r \in Reqs :
        /\ pc[r] = "done"
        /\ token[r] = Token(TRUE, TokenFields \ {"exp"})
        /\ Response(r).status = HTTP_403_FORBIDDEN
        /\ Response(r).detail = "ExpiredSignatureError"

\* The handler of r launched the executable.
Launched(r) == proc[r].state # "none" \/ Effect("launch", work_dir[r]) \in effects[r]

C6_ExperimentFileInside ==
    \A r \in Reqs :
        (op[r] = Run /\ Launched(r)) =>
            LET x == Lookup(fs, work_dir[r], args[r].experiment_file.segs)
            IN  /\ ~args[r].experiment_file.abs
                /\ x \in fs.files
                /\ work_dir[r] \in Parents(x)

\* C7: when the timeout expires the child is terminated, the request fails
\* with 504, and no exit code, output or summary is returned.
C7_Timeout ==
    \A r \in Reqs :
        /\ pc[r] = "done" => proc[r].state # "running"
        /\ proc[r].state = "killed"
              => /\ pc[r] = "done"
                 /\ Response(r).status = HTTP_504_GATEWAY_TIMEOUT
                 /\ result[r] = NoResult
        /\ Response(r).status = HTTP_504_GATEWAY_TIMEOUT
              => /\ proc[r].state = "killed"
                 /\ result[r] = NoResult

\* A run timed out.
C7_Witness ==
    \E r \in Reqs :
        /\ op[r] = Run
        /\ pc[r] = "done"
        /\ Effect("launch", work_dir[r]) \in effects[r]
        /\ proc[r].state = "killed"
        /\ Response(r).status = HTTP_504_GATEWAY_TIMEOUT

Uploaded(r) == key(args[r].folder) \in DOMAIN store

\* C8: collect-outputs deletes the working directory only after its archive
\* was uploaded, a failed archive or upload leaves the directory and its
\* files in place, and after a successful collect the folder is gone.
C8_DeleteAfterUpload ==
    \A r \in Reqs :
        op[r] = Collect =>
            /\ (\E e \in effects[r] : e.kind \in {"rmtree", "rmtree_failed"})
                  => /\ Uploaded(r)
                     /\ store[key(args[r].folder)] = buf[r]
            /\ (Failed(r) /\ Effect("archive", work_dir[r]) \in effects[r])
                  => /\ is_dir(fs, work_dir[r])
                     /\ Entries(fs, work_dir[r]) = Entries(InitFS, work_dir[r])
            /\ (pc[r] = "done" /\ ~Failed(r)) => ~is_dir(fs, work_dir[r])

\* C9: when the working directory could not be deleted the request ends
\* with an error, not with the success envelope.
C9_DeleteFailureReported ==
    \A r \in Reqs :
        (pc[r] = "done" /\ Effect("rmtree_failed", work_dir[r]) \in effects[r])
            => /\ Failed(r)
               /\ Response(r).status # HTTP_200_OK

\* C10: fetch-inputs tries every name of the list, and when a download
\* failed the response carries the key-to-reason map of exactly the failed
\* names; the experiment-file check and the success envelope are not reached.
C10_PartialFailure ==
    \A r \in Reqs :
        (op[r] = Fetch /\ pc[r] = "done" /\ errors[r] # EmptyMap)
            => /\ idx[r] = Len(args[r].files_names_list)
               /\ result[r] = NoResult
               /\ Response(r).errors = errors[r]

\* The requests under way target pairwise different folders.
DifferentFolders ==
    \A r, q \in Reqs :
        (r # q /\ Resolved(r) /\ Resolved(q)) => work_dir[r] # work_dir[q]

\* C11: with concurrent requests on different folders every file a
\* fetch-inputs request downloads is written into that request's own
\* resolved folder, never into the folder of another request under way.
C11_OwnFolderWrites ==
    DifferentFolders =>
        \A r \in Reqs :
            \A e \in effects[r] : e.kind = "write" => e.dir = work_dir[r]

\* C12: under every interleaving the executable is started with the arguments
\* [executable, "A", experiment_file] in the run's own resolved folder, and
\* the summary it returns is the one parsed from that folder, wherever other
\* requests have moved the process's current directory meanwhile.
C12_RunInOwnFolder ==
    /\ [](\A r \in Reqs :
            /\ proc[r].state # "none" =>
                    /\ proc[r].cwd = work_dir[r]
                    /\ proc[r].argv = <<DSSAT_EXE, "A", args[r].experiment_file>>
            /\ \A e \in effects[r] :
                    (op[r] = Run /\ e.kind \in {"launch", "read"}) => e.dir = work_dir[r])
    /\ [][\A r \in Reqs :
            (pc[r] = "r_result" /\ pc'[r] = "done" /\ ~Failed(r)')
                => result'[r].summary = _parse_summary(fs, work_dir[r])]_vars

\* A run came back with a parsed summary while the process's current
\* directory was another request's folder.
C12_Witness ==
    \E r, q \in Reqs :
        /\ op[r] = Run /\ pc[r] = "done" /\ ~Failed(r)
        /\ result[r].summary # NoSummary
        /\ Effect("chdir", cwd) \in effects[q]
        /\ cwd = work_dir[q] /\ cwd # work_dir[r]
        /\ proc[q].state = "none"

\* Run q has passed its folder and experiment-file checks and has not yet
\* read its results.
RunUnderWay(q) == op[q] = Run /\ pc[q] \in {"r_launch", "r_wait", "r_result"}

\* C13: nothing excludes a collect from a folder a run is working in: while
\* a run is between its checks and the reading of its results, a collect on
\* the same folder can take its archive step and its delete step.
C13_NoFolderLock ==
    \A r, q \in Reqs :
        (op[r] = Collect /\ RunUnderWay(q) /\ work_dir[q] = work_dir[r]) =>
            /\ pc[r] = "u_zip" => ENABLED CollectZip(r, TRUE)
            /\ pc[r] = "u_rmtree" => ENABLED CollectRmtree(r, TRUE)

\* The child of run q has written SUMMARY.OUT and the run has not read it
\* yet; collect r has archived the folder with that file and deleted it.
C13_Witness ==
    \E r, q \in Reqs :
        /\ op[r] = Collect /\ work_dir[q] = work_dir[r]
        /\ op[q] = Run /\ pc[q] = "r_result"
        /\ <<"SUMMARY.OUT">> \in buf[r]
        /\ Effect("rmtree", work_dir[q]) \in effects[r]
        /\ ~is_dir(fs, work_dir[q])

\* The name is a bare file name: no separator, no "." or "..".
PlainName(n) == ~n.abs /\ Len(n.segs) = 1 /\ n.segs[1] \notin {".", ".."}

FolderNotFound(resp) == resp.status = HTTP_404_NOT_FOUND

C16_NoPathInResponse ==
    \A r \in Reqs : pc[r] = "done" => Response(r).path = NoPath

\* The last k characters of s, counted from its end.
LastChars(s, k) == SubSeq(s, Len(s) - k + 1, Len(s))

\* C17: when the child ends within the timeout the returned stdout is the
\* last min(length, 10000) characters of the captured stdout, and the returned
\* stderr the last min(length, 10000) characters of the captured stderr; a
\* stream of at most 10000 characters comes back as it was.
C17_TailOfStreams ==
    \A r \in Reqs :
        (op[r] = Run /\ pc[r] = "done" /\ proc[r].state = "exited" /\ ~Failed(r)) =>
            LET o == Outcomes[proc[r].outcome]
            IN  /\ result[r].stdout = LastChars(o.stdout, Min(Len(o.stdout), 10000))
                /\ result[r].stderr = LastChars(o.stderr, Min(Len(o.stderr), 10000))
                /\ Len(o.stdout) <= 10000 => result[r].stdout = o.stdout
                /\ Len(o.stderr) <= 10000 => result[r].stderr = o.stderr

\* A run came back with a stdout cut to its last 10000 characters and a
\* short stderr left whole.
C17_Witness ==
    \E r \in Reqs :
        /\ op[r] = Run /\ pc[r] = "done" /\ proc[r].state = "exited"
        /\ Len(Outcomes[proc[r].outcome].stdout) = 10003
        /\ Len(result[r].stdout) = 10000
        /\ result[r].stdout[1] = 4 /\ result[r].stdout[10000] = 10003
        /\ result[r].stderr = Chars(2)

\* C18: a child that ended by itself, with whatever exit code, is no error:
\* the run answers 200 with exit_code the child's exit code and summary the
\* one parsed from the resolved folder.
C18_NonZeroExit ==
    \A r \in Reqs :
        (op[r] = Run /\ pc[r] = "done" /\ proc[r].state = "exited") =>
            /\ ~Failed(r)
            /\ Response(r).status = HTTP_200_OK
            /\ Response(r).body.exit_code = Outcomes[proc[r].outcome].exit_code
            /\ Response(r).body.summary = _parse_summary(fs, work_dir[r])

\* A run whose child ended with exit code 3 after writing SUMMARY.OUT came
\* back with that code and the two treatments of the file.
C18_Witness ==
    \E r \in Reqs :
        /\ op[r] = Run /\ pc[r] = "done" /\ proc[r].state = "exited"
        /\ Response(r).status = HTTP_200_OK
        /\ Response(r).body.exit_code = 3
        /\ Response(r).body.summary.n_treatments = 2

\* The lines of a text that are not blank, do not begin with "@" and hold a
\* number in columns 65-72, each as its record.
IsBlank(line) == \A i \in 1..Len(line) : line[i] \in Whitespace
YieldColumns(line) == [i \in 1..(Max(Min(Len(line), 72), 65) - 65) |-> line[65 + i]]
Kept(line) ==
    /\ ~IsBlank(line)
    /\ line[1] # "@"
    /\ float_ok(strip(YieldColumns(line)))
RecordOf(line) ==
    [expt |-> strip(SubSeq(line, 1, 8)),
     pl_date |-> strip(SubSeq(line, 20, 25)),
     yield_kg_ha |-> float(strip(YieldColumns(line)))]
Expected(text) ==
    LET kept == SelectSeq(text, Kept)
    IN  [i \in 1..Len(kept) |-> RecordOf(kept[i])]

\* The summary returned for r is right for the file in r's folder.
ReportRight(r) ==
    LET summary == result[r].summary
        there == Append(work_dir[r], "SUMMARY.OUT") \in fs.files
    IN  /\ ~there => summary = NoSummary
        /\ there =>
            /\ summary.none = FALSE
            /\ summary.treatments = Expected(fs.text[Append(work_dir[r], "SUMMARY.OUT")])
            /\ summary.n_treatments = Len(summary.treatments)

\* C19: the summary parser never raises; it gives None when the folder has no
\* SUMMARY.OUT, and otherwise the records, in file order, of exactly the
\* lines that are neither blank nor begin with "@" and whose columns 65-72
\* parse as a number, with n_treatments their count.
C19_ParserTotal ==
    \A r \in Reqs :
        (op[r] = Run /\ pc[r] = "done" /\ proc[r].state = "exited") =>
            /\ ~Failed(r)
            /\ ReportRight(r)

\* C19 for the runs that came back with a result.
C19_ReportWhenReturned ==
    \A r \in Reqs :
        (op[r] = Run /\ pc[r] = "done" /\ proc[r].state = "exited" /\ ~Failed(r)) =>
            ReportRight(r)

\* The regular files below w, and the path of x as seen from w.
FilesBelow(f, w) == {x \in f.files : w \in Parents(x)}
RelativeTo(x, w) == [i \in 1..(Len(x) - Len(w)) |-> x[Len(w) + i]]

\* C20: the archive of a collect-outputs holds one entry for each regular
\* file anywhere below the working directory, named by the file's path
\* relative to that directory, and nothing else; the upload puts it into the
\* store as one object under the folder name followed by ".zip".
C20_ArchiveEntries ==
    /\ [](\A r \in Reqs :
            (op[r] = Collect /\ pc[r] \in {"u_upload", "u_rmtree"}) =>
                /\ buf[r] = {RelativeTo(x, work_dir[r]) : x \in FilesBelow(fs, work_dir[r])}
                /\ Cardinality(buf[r]) = Cardinality(FilesBelow(fs, work_dir[r])))
    /\ [][\A r \in Reqs :
            (pc[r] = "u_upload" /\ pc'[r] = "u_rmtree") =>
                LET k == <<args[r].folder, ".zip">>
                IN  /\ DOMAIN store' = DOMAIN store \cup {k}
                    /\ store'[k] = buf[r]
                    /\ \A j \in DOMAIN store \ {k} : store'[j] = store[j]]_vars

\* The folder Apple, with F.X and sub/B.OUT, was archived as exactly these
\* two entries and stored under "Apple" + ".zip".
C20_Witness ==
    \E r \in Reqs :
        /\ op[r] = Collect /\ pc[r] = "done" /\ ~Failed(r)
        /\ args[r].folder = Rel(<<"Apple">>)
        /\ buf[r] = {<<"F.X">>, <<"sub", "B.OUT">>}
        /\ store[<<Rel(<<"Apple">>), ".zip">>] = buf[r]

\* The same argument object sent the other way: flat for wrapped, wrapped
\* for flat.
Twin(b) == [b EXCEPT !.wrapped = ~b.wrapped]

\* C21: in all three operations an argument object sent flat and the same
\* object sent under "args" are handled alike: the handler's first block
\* ends with the same error for both, or builds the same typed request for
\* both, from which the rest of the handler goes on.
C21_FlatWrappedSame ==
    [][\A r \in Reqs :
        (pc[r] = "validate" /\ pc'[r] # "validate") =>
            LET e == validate(op[r], Twin(payload[r]))
            IN  /\ raised'[r] = e
                /\ e = NoExc => args'[r] = Typed(Twin(payload[r]))]_vars

\* C22: a run turned down with InvalidFolder or ExperimentFileNotFound
\* leaves what requests share as it was before the request: the file system,
\* the object store and the process's current directory. Stated for the
\* first request the server receives, whose state before is the initial one.
C22_RejectedRunChangesNothing ==
    \A r \in Reqs :
        (/\ op[r] = Run /\ pc[r] = "done" /\ served = 1
         /\ \/ InvalidFolder(Response(r))
            \/ ExperimentFileNotFound(Response(r))) =>
            /\ fs = InitFS
            /\ store = EmptyMap
            /\ cwd = START_DIR

====
